---- MODULE Spec2Model ----
(***************************************************************************)
(* Model of the consumption-side pipeline of typed-pubsub:                 *)
(* createHandlerFactory (src/src/handler.ts) and shouldDropEvent           *)
(* (src/src/utils/should-drop-event.ts).                                    *)
(*                                                                         *)
(* One pipeline registration (topic, effective options, optional event     *)
(* marking functions) is fixed by Init.  The transport delivers events to  *)
(* it; each delivery is one invocation of the async callback handed to     *)
(* onMessagePublished.  An invocation runs synchronously up to its next    *)
(* await, so every action below is one such synchronous stretch, and       *)
(* invocations interleave only at the awaits (isEventProcessed, handler,   *)
(* markEventAsProcessed).                                                  *)
(***************************************************************************)
EXTENDS Integers, Sequences, FiniteSets, TLC

(***************************************************************************)
(* Bounds of the model.                                                    *)
(***************************************************************************)
MaxInv == 2
MaxMinutes == 1
MaxStaleMinutes == 2

(***************************************************************************)
(* Program constants.                                                      *)
(***************************************************************************)
MINUTE_MS == 60000

Invs == 1..MaxInv

(* JavaScript values the code distinguishes ******************************)

\* A JS number that may be NaN (Date.parse of an unparseable string).
NaN == [nan |-> TRUE, v |-> 0]
Num(n) == [nan |-> FALSE, v |-> n]
\* a - b and a > b of JS numbers: NaN is absorbing, every comparison with
\* NaN is false.
Minus(a, b) == IF a.nan \/ b.nan THEN NaN ELSE Num(a.v - b.v)
Gt(a, b) == ~a.nan /\ ~b.nan /\ a.v > b.v

\* An optional number: undefined, or a number of minutes.
Undefined == [defined |-> FALSE, v |-> 0]
Minutes(n) == [defined |-> TRUE, v |-> n]

\* event.time: an ISO string (abstracted to its instant in ms) or something
\* Date.parse cannot read (undefined, garbage).
Unparseable == [parseable |-> FALSE, ms |-> 0]
Iso(ms) == [parseable |-> TRUE, ms |-> ms]
DateParse(t) == IF t.parseable THEN Num(t.ms) ELSE NaN

\* JSON payloads: a set of <<key, type, value>> members.
\* { name: "test-event", extra: "x" } and { invalid: "data" }.
PayloadNameExtra == {<<"name", "string", "test-event">>, <<"extra", "string", "x">>}
PayloadInvalid == {<<"invalid", "string", "data">>}
Payloads == {PayloadNameExtra, PayloadInvalid}

\* event.id: a string; "" stands for an absent (falsy) id.
NoId == ""
EventIds == {"e1", "e2"}

Times == {Unparseable, Iso(0)}

Events == [id : EventIds \cup {NoId}, time : Times, json : Payloads]

\* The instants the clock can show: each whole minute and the millisecond
\* after it.
ClockValues == {m * MINUTE_MS + d : m \in 0..MaxMinutes, d \in {0, 1}}

(* Schemas ******************************************************************)

\* The zod schema of topic "test": z.object({ name: z.string() }).  Parsing
\* succeeds iff the key name holds a string; the parsed value keeps only the
\* keys of the schema (z.object strips unknown keys).
TestSchema == [keys |-> {"name"}]
Topics == {"test", "missing"}
schemas == [t \in {"test"} |-> TestSchema]

safeParse(schema, raw) ==
    [success |-> \A k \in schema.keys : \E m \in raw : m[1] = k /\ m[2] = "string",
     data |-> {m \in raw : m[1] \in schema.keys}]

(* Options ******************************************************************)

\* vpcConnector: undefined, or the name of a connector.
NoConnector == [defined |-> FALSE, v |-> ""]
Connector(name) == [defined |-> TRUE, v |-> name]

\* constants.ts:5-14.
defaultHandlerOptions ==
    [retry |-> TRUE,
     retryMaxAgeMinutes |-> Undefined,
     memory |-> "512MiB",
     cpu |-> 1,
     timeoutSeconds |-> 20,
     maxInstances |-> 250,
     markEvent |-> FALSE,
     vpcConnector |-> NoConnector]

\* Variant: the spread is written the other way round, so the defaults win.
MergeOptionsDefaultsWin(defaultOptions, options) ==
    [k \in DOMAIN defaultOptions \cup DOMAIN options |->
        IF k \in DOMAIN defaultOptions THEN defaultOptions[k] ELSE options[k]]
\* { ...defaultOptions, ...options }: a key present in options wins.
MergeOptions(defaultOptions, options) ==
    [k \in DOMAIN defaultOptions \cup DOMAIN options |->
        IF k \in DOMAIN options THEN options[k] ELSE defaultOptions[k]]

MaxAgeChoices == {Undefined, Minutes(1)}
HandlerOptions ==
    {<<>>}
    \cup {[markEvent |-> b] : b \in BOOLEAN}
    \cup {[retryMaxAgeMinutes |-> a] : a \in MaxAgeChoices}
    \cup {[markEvent |-> b, retryMaxAgeMinutes |-> a] : b \in BOOLEAN, a \in MaxAgeChoices}

\* The event's timestamp is readable and lies more than m minutes before
\* clock.
OlderThan(e, clock, m) == e.time.parseable /\ clock - e.time.ms > m * MINUTE_MS

(* State ********************************************************************)

VARIABLES
    reg,    \* the registration: topic, effective options, store supplied?
    now,    \* Date.now() in ms
    store,  \* ids the idempotency store holds a record for
    inv,    \* per invocation: position, event, calls made, outcome
    cfg     \* the options on their way through createTypedPubsub and createHandler

vars == <<reg, now, store, inv, cfg>>

\* Nothing is being configured.
NoConfig == [stage |-> "none"]

Idle ==
    [pc |-> "idle", event |-> [id |-> NoId, time |-> Unparseable, json |-> {}],
     oldAtStart |-> FALSE, afterMarked |-> FALSE, afterLostMark |-> FALSE,
     dropCalls |-> 0, wasStale |-> FALSE,
     isProcessedCalls |-> 0, seen |-> "none",
     parsed |-> FALSE,
     handlerCalls |-> 0, handlerArg |-> {}, handlerResult |-> "none",
     markCalls |-> 0, markResult |-> "none",
     log |-> <<>>, outcome |-> "None", failure |-> "none"]

\* Variant: either condition is taken to be enough.
canMarkEventsEither == reg.markEvent \/ reg.hasStore
\* handler.ts:51: events can be marked when the markEvent option is on and
\* event marking functions were supplied.
canMarkEvents == reg.markEvent /\ reg.hasStore

(* shouldDropEvent **********************************************************)

\* Variant: the comparison is >=, so an age equal to the limit counts as
\* stale.
shouldDropEventAtLimit(event, maxAgeMinutes, clock) ==
    IF ~maxAgeMinutes.defined THEN FALSE
    ELSE LET maxAgeMs == Num(maxAgeMinutes.v * 60 * 1000)
             eventAge == Minus(Num(clock), DateParse(event.time))
         IN  ~eventAge.nan /\ eventAge.v >= maxAgeMs.v
\* Variant: the test is written as "not within the limit", which an age of
\* NaN passes.
shouldDropEventNotWithin(event, maxAgeMinutes, clock) ==
    IF ~maxAgeMinutes.defined THEN FALSE
    ELSE LET maxAgeMs == Num(maxAgeMinutes.v * 60 * 1000)
             eventAge == Minus(Num(clock), DateParse(event.time))
         IN  ~(~eventAge.nan /\ eventAge.v <= maxAgeMs.v)
\* Variant: the limit is converted as if it were given in hours.
shouldDropEventHours(event, maxAgeMinutes, clock) ==
    IF ~maxAgeMinutes.defined THEN FALSE
    ELSE LET maxAgeMs == Num(maxAgeMinutes.v * 60 * 60 * 1000)
             eventAge == Minus(Num(clock), DateParse(event.time))
         IN  Gt(eventAge, maxAgeMs)
\* Variant: a missing limit is read as a limit of 0 minutes.
shouldDropEventUndefinedAsZero(event, maxAgeMinutes, clock) ==
    LET maxAgeMs == Num((IF maxAgeMinutes.defined THEN maxAgeMinutes.v ELSE 0) * 60 * 1000)
        eventAge == Minus(Num(clock), DateParse(event.time))
    IN  Gt(eventAge, maxAgeMs)
\* should-drop-event.ts:3-26, with Date.now() passed in as clock.
shouldDropEvent(event, maxAgeMinutes, clock) ==
    IF ~maxAgeMinutes.defined THEN FALSE
    ELSE LET maxAgeMs == Num(maxAgeMinutes.v * 60 * 1000)
             eventAge == Minus(Num(clock), DateParse(event.time))
         IN  Gt(eventAge, maxAgeMs)

Init ==
    /\ \E topic \in Topics, options \in HandlerOptions, hasStore \in BOOLEAN,
          faithful \in BOOLEAN :
         LET eff == MergeOptions(defaultHandlerOptions, options) IN
         /\ (~hasStore => faithful)
         /\ reg = [topic |-> topic,
                   retryMaxAgeMinutes |-> eff.retryMaxAgeMinutes,
                   markEvent |-> eff.markEvent,
                   hasStore |-> hasStore,
                   faithful |-> faithful]
    /\ now = 0
    /\ store = {}
    /\ inv = [i \in Invs |-> Idle]
    /\ cfg = NoConfig

(* The pipeline: the callback of handler.ts:63-106 ***************************)

Report(r, kind) == [r EXCEPT !.log = Append(@, [kind |-> kind, channel |-> "console.error"])]
Finish(r, outcome) == [r EXCEPT !.pc = "done", !.outcome = outcome]
Throw(r, cause) == [r EXCEPT !.pc = "done", !.outcome = "Failed", !.failure = cause]

\* Variant: the await of handler.ts:100 is missing: the handler is started
\* and the callback goes straight on to the mark.
CallHandlerNotAwaited(r, data) ==
    LET r1 == [r EXCEPT !.handlerCalls = @ + 1, !.handlerArg = data]
    IN  IF canMarkEvents /\ r1.event.id # NoId
        THEN [r1 EXCEPT !.pc = "mark", !.markCalls = @ + 1]
        ELSE Finish(r1, "Processed")
\* handler.ts:100: the handler is called with result.data and awaited.
CallHandler(r, data) ==
    [r EXCEPT !.pc = "handler", !.handlerCalls = @ + 1, !.handlerArg = data]

\* Variant: the payload is parsed with schema.parse, which throws on a
\* validation error.
ValidateThrows(r) ==
    IF reg.topic \notin DOMAIN schemas
    THEN Throw(r, "got")
    ELSE LET schema == schemas[reg.topic]
             messageData == r.event.json
             result == safeParse(schema, messageData)
         IN  IF ~result.success
             THEN Throw([r EXCEPT !.parsed = TRUE], "validation")
             ELSE CallHandler([r EXCEPT !.parsed = TRUE], result.data)
\* Variant: the handler is given the raw message data instead of result.data.
ValidateRaw(r) ==
    IF reg.topic \notin DOMAIN schemas
    THEN Throw(r, "got")
    ELSE LET schema == schemas[reg.topic]
             messageData == r.event.json
             result == safeParse(schema, messageData)
         IN  IF ~result.success
             THEN Finish(Report([r EXCEPT !.parsed = TRUE], "validation"), "DroppedInvalid")
             ELSE CallHandler([r EXCEPT !.parsed = TRUE], messageData)
\* handler.ts:87-100: look the schema up, parse the raw json, log and
\* return on a validation error, otherwise call the handler.
Validate(r) ==
    IF reg.topic \notin DOMAIN schemas
    THEN Throw(r, "got")
    ELSE LET schema == schemas[reg.topic]
             messageData == r.event.json
             result == safeParse(schema, messageData)
         IN  IF ~result.success
             THEN Finish(Report([r EXCEPT !.parsed = TRUE], "validation"), "DroppedInvalid")
             ELSE CallHandler([r EXCEPT !.parsed = TRUE], result.data)

\* handler.ts:72-73: the duplicate check is made only when events can be
\* marked and the event has a (truthy) id.
CallIsEventProcessed(r) ==
    [r EXCEPT !.pc = "isProcessed", !.isProcessedCalls = @ + 1]

\* Variant: the return of handler.ts:66 is missing: a stale event is
\* reported and processed all the same.
StartStaleNoReturn(r) ==
    LET dropped == shouldDropEvent(r.event, reg.retryMaxAgeMinutes, now)
        r1 == [r EXCEPT !.dropCalls = @ + 1, !.wasStale = dropped]
        r2 == IF dropped THEN Report(r1, "stale") ELSE r1
    IN  IF canMarkEvents /\ r2.event.id # NoId
        THEN CallIsEventProcessed(r2)
        ELSE Validate(r2)
\* Variant: a stale event is dropped without a report.
StartSilentDrop(r) ==
    LET dropped == shouldDropEvent(r.event, reg.retryMaxAgeMinutes, now)
        r1 == [r EXCEPT !.dropCalls = @ + 1, !.wasStale = dropped]
    IN  IF dropped
        THEN Finish(r1, "DroppedStale")
        ELSE IF canMarkEvents /\ r1.event.id # NoId
             THEN CallIsEventProcessed(r1)
             ELSE Validate(r1)
\* Variant: the duplicate check is made first, the age is looked at only
\* when no check is made.
StartCheckFirst(r) ==
    IF canMarkEvents /\ r.event.id # NoId
    THEN CallIsEventProcessed(r)
    ELSE LET dropped == shouldDropEvent(r.event, reg.retryMaxAgeMinutes, now)
             r1 == [r EXCEPT !.dropCalls = @ + 1, !.wasStale = dropped]
         IN  IF dropped
             THEN Finish(Report(r1, "stale"), "DroppedStale")
             ELSE Validate(r1)
\* Variant: the duplicate check is made whenever events can be marked,
\* whether or not the event has an id.
StartNoIdCheck(r) ==
    LET dropped == shouldDropEvent(r.event, reg.retryMaxAgeMinutes, now)
        r1 == [r EXCEPT !.dropCalls = @ + 1, !.wasStale = dropped]
    IN  IF dropped
        THEN Finish(Report(r1, "stale"), "DroppedStale")
        ELSE IF canMarkEvents
             THEN CallIsEventProcessed(r1)
             ELSE Validate(r1)
\* handler.ts:63-73, up to the first await.
Start(r) ==
    LET dropped == shouldDropEvent(r.event, reg.retryMaxAgeMinutes, now)
        r1 == [r EXCEPT !.dropCalls = @ + 1, !.wasStale = dropped]
    IN  IF dropped
        THEN Finish(Report(r1, "stale"), "DroppedStale")
        ELSE IF canMarkEvents /\ r1.event.id # NoId
             THEN CallIsEventProcessed(r1)
             ELSE Validate(r1)

\* Variant: the duplicate is reported with console.warn.
AfterIsProcessedWarns(r, b) ==
    IF b
    THEN Finish([r EXCEPT !.log = Append(@, [kind |-> "duplicate", channel |-> "console.warn"])],
                "DroppedDuplicate")
    ELSE Validate(r)
\* Variant: the payload is parsed before the answer of the duplicate check
\* is looked at.
AfterIsProcessedParseFirst(r, b) ==
    LET v == Validate(r)
    IN  IF v.pc = "done" \/ ~b
        THEN v
        ELSE Finish(Report([r EXCEPT !.parsed = TRUE], "duplicate"), "DroppedDuplicate")
\* Variant: a duplicate is raised as an error instead of being dropped.
AfterIsProcessedThrowsOnDuplicate(r, b) ==
    IF b
    THEN Throw(Report(r, "duplicate"), "duplicate")
    ELSE Validate(r)
\* Variant: an in-process lock per event id: an invocation that passed the
\* check is turned away while another one runs the handler for the same id.
AfterIsProcessedExclusive(r, b) ==
    IF b \/ \E j \in Invs : inv[j].pc = "handler" /\ inv[j].event.id = r.event.id
    THEN Finish(Report(r, "duplicate"), "DroppedDuplicate")
    ELSE Validate(r)
\* Variant: the duplicate is reported but the return of handler.ts:83 is
\* missing.
AfterIsProcessedNoReturn(r, b) ==
    IF b
    THEN Validate(Report(r, "duplicate"))
    ELSE Validate(r)
\* handler.ts:73-85: isEventProcessed resolved with b.
AfterIsProcessed(r, b) ==
    IF b
    THEN Finish(Report(r, "duplicate"), "DroppedDuplicate")
    ELSE Validate(r)

\* Variant: a failing duplicate check is caught and the event is processed
\* as if it had not been seen.
AfterIsProcessedRejectedFailOpen(r) == Validate(r)
\* handler.ts:73: isEventProcessed rejected; nothing catches it.
AfterIsProcessedRejected(r) == Throw(r, "isProcessed")

\* Variant: the mark of handler.ts:103-105 is left out.
AfterHandlerNoMark(r) == Finish(r, "Processed")
\* handler.ts:100-105: the handler resolved.
AfterHandler(r) ==
    IF canMarkEvents /\ r.event.id # NoId
    THEN [r EXCEPT !.pc = "mark", !.markCalls = @ + 1]
    ELSE Finish(r, "Processed")

\* Variant: the mark sits in a finally block and is made after a failed
\* handler too.
AfterHandlerRejectedFinally(r) ==
    IF canMarkEvents /\ r.event.id # NoId
    THEN [r EXCEPT !.pc = "mark", !.markCalls = @ + 1]
    ELSE Throw(r, "handler")
\* Variant: the handler's failure is caught and logged.
AfterHandlerRejectedSwallowed(r) ==
    IF canMarkEvents /\ r.event.id # NoId
    THEN Finish(Report(r, "handler"), "ProcessedMarked")
    ELSE Finish(Report(r, "handler"), "Processed")
\* handler.ts:100: the handler threw or rejected; nothing catches it.
AfterHandlerRejected(r) == Throw(r, "handler")

\* handler.ts:104-106: markEventAsProcessed resolved; the callback returns.
AfterMark(r) == Finish(r, "ProcessedMarked")

\* Variant: a failed mark is tried once more.
AfterMarkRejectedRetry(r) ==
    IF r.markCalls < 2
    THEN [r EXCEPT !.pc = "mark", !.markCalls = @ + 1]
    ELSE Throw(r, "mark")
\* Variant: a failed mark is caught and logged, and the callback returns.
AfterMarkRejectedSwallowed(r) == Finish(Report(r, "mark"), "ProcessedMarked")
\* handler.ts:104: markEventAsProcessed rejected; nothing catches it.
AfterMarkRejected(r) == Throw(r, "mark")

(* Actions ******************************************************************)

Delivered == {inv[j].event : j \in {k \in Invs : inv[k].pc # "idle"}}
\* A redelivery hands over a message that was delivered before, with the same
\* id, time and payload.
Redelivery(e) == e \in Delivered
\* A message delivered for the first time carries no id, or the next id the
\* transport has not used.
Fresh(e) ==
    \/ e.id = NoId
    \/ /\ e.id \notin {d.id : d \in Delivered}
       /\ e.id = "e1" \/ "e1" \in {d.id : d \in Delivered}

\* Event e is delivered while no invocation is under way, the store holds
\* no record for its id, and an earlier invocation for that id failed after
\* its handler had completed.
AfterLostMark(e) ==
    /\ \A k \in Invs : inv[k].pc \in {"idle", "done"}
    /\ e.id \notin store
    /\ \E j \in Invs : /\ inv[j].pc = "done"
                       /\ inv[j].event.id = e.id
                       /\ inv[j].handlerResult = "ok"
                       /\ inv[j].outcome = "Failed"

\* The transport delivers event e: invocation i of the callback starts.
Deliver(i, e) ==
    /\ inv[i].pc = "idle"
    /\ i > 1 => inv[i - 1].pc # "idle"
    /\ Redelivery(e) \/ Fresh(e)
    /\ inv' = [inv EXCEPT ![i] =
                 Start([Idle EXCEPT
                          !.event = e,
                          !.oldAtStart = OlderThan(e, now, 1),
                          !.afterMarked =
                             \E j \in Invs : /\ inv[j].outcome = "ProcessedMarked"
                                             /\ inv[j].event.id = e.id,
                          !.afterLostMark = AfterLostMark(e)])]
    /\ UNCHANGED <<reg, now, store, cfg>>

\* The store answers isEventProcessed(id).  A faithful store answers true
\* exactly for the ids it holds; any other store may answer anything.
IsProcessedResolves(i, b) ==
    /\ inv[i].pc = "isProcessed"
    /\ reg.faithful => (b <=> inv[i].event.id \in store)
    /\ inv' = [inv EXCEPT ![i] =
                 AfterIsProcessed([@ EXCEPT !.seen = IF b THEN "true" ELSE "false"], b)]
    /\ UNCHANGED <<reg, now, store, cfg>>

IsProcessedRejects(i) ==
    /\ inv[i].pc = "isProcessed"
    /\ inv' = [inv EXCEPT ![i] = AfterIsProcessedRejected([@ EXCEPT !.seen = "rejected"])]
    /\ UNCHANGED <<reg, now, store, cfg>>

HandlerResolves(i) ==
    /\ inv[i].pc = "handler"
    /\ inv' = [inv EXCEPT ![i] = AfterHandler([@ EXCEPT !.handlerResult = "ok"])]
    /\ UNCHANGED <<reg, now, store, cfg>>

HandlerRejects(i) ==
    /\ inv[i].pc = "handler"
    /\ inv' = [inv EXCEPT ![i] = AfterHandlerRejected([@ EXCEPT !.handlerResult = "rejected"])]
    /\ UNCHANGED <<reg, now, store, cfg>>

\* The store records the id and markEventAsProcessed resolves.
MarkResolves(i) ==
    /\ inv[i].pc = "mark"
    /\ store' = store \cup {inv[i].event.id}
    /\ inv' = [inv EXCEPT ![i] = AfterMark([@ EXCEPT !.markResult = "ok"])]
    /\ UNCHANGED <<reg, now, cfg>>

MarkRejects(i) ==
    /\ inv[i].pc = "mark"
    /\ inv' = [inv EXCEPT ![i] = AfterMarkRejected([@ EXCEPT !.markResult = "rejected"])]
    /\ UNCHANGED <<reg, now, store, cfg>>

\* Time passes.
Tick ==
    /\ \E t \in ClockValues : t > now /\ now' = t
    /\ UNCHANGED <<reg, store, inv, cfg>>

Next ==
    \/ \E i \in Invs, e \in Events : Deliver(i, e)
    \/ \E i \in Invs, b \in BOOLEAN : IsProcessedResolves(i, b)
    \/ \E i \in Invs : IsProcessedRejects(i)
    \/ \E i \in Invs : HandlerResolves(i)
    \/ \E i \in Invs : HandlerRejects(i)
    \/ \E i \in Invs : MarkResolves(i)
    \/ \E i \in Invs : MarkRejects(i)
    \/ Tick

Spec == Init /\ [][Next]_vars

\* The call invocation i is waiting for returns: it resolves or rejects.
CallReturns(i) ==
    \/ \E b \in BOOLEAN : IsProcessedResolves(i, b)
    \/ IsProcessedRejects(i)
    \/ HandlerResolves(i)
    \/ HandlerRejects(i)
    \/ MarkResolves(i)
    \/ MarkRejects(i)

\* The runtime ends invocation i while it waits at an await (the execution
\* timeout of the transport): the callback never continues, the event is not
\* acknowledged, and a store call that was pending has had no effect.
Cancel(i) ==
    /\ inv[i].pc \in {"isProcessed", "handler", "mark"}
    /\ inv' = [inv EXCEPT ![i] = Throw(@, "cancelled")]
    /\ UNCHANGED <<reg, now, store, cfg>>

NextCancel ==
    \/ Next
    \/ \E i \in Invs : Cancel(i)

\* The pipeline under a runtime that may cancel invocations in flight.
SpecCancel == Init /\ [][NextCancel]_vars

\* The pipeline with a store and a handler whose calls all return.
SpecLive == Spec /\ \A i \in Invs : WF_vars(CallReturns(i))

TypeOK ==
    /\ now \in ClockValues
    /\ store \subseteq EventIds
    /\ \A i \in Invs : inv[i].pc \in {"idle", "isProcessed", "handler", "mark", "done"}

(* Configuration: createTypedPubsub and createHandler *************************)

OptionKeys == DOMAIN defaultHandlerOptions

\* A second value for every option.
OtherOptions ==
    [retry |-> FALSE,
     retryMaxAgeMinutes |-> Minutes(1),
     memory |-> "1GiB",
     cpu |-> 2,
     timeoutSeconds |-> 60,
     maxInstances |-> 100,
     markEvent |-> TRUE,
     vpcConnector |-> Connector("redis-connector")]

\* The options object that, key by key, leaves the key out, gives it the
\* library's value or gives it the other value.
OptionsOf(c) ==
    [k \in {x \in OptionKeys : c[x] # "absent"} |->
        IF c[k] = "library" THEN defaultHandlerOptions[k] ELSE OtherOptions[k]]

\* These four keys are left out or given together.
GroupKeys == {"retry", "memory", "timeoutSeconds", "vpcConnector"}
Grouped(c) == \A k, l \in GroupKeys : c[k] = c[l]

\* options.defaultHandlerOptions of createTypedPubsub.
ClientOptions ==
    {OptionsOf(c) : c \in {d \in [OptionKeys -> {"absent", "other"}] : Grouped(d)}}
\* options of createHandler.
PerHandlerOptions ==
    {OptionsOf(c) : c \in {d \in [OptionKeys -> {"absent", "library", "other"}] : Grouped(d)}}

\* handler.ts:38-62: the config handed to onMessagePublished is built from
\* the destructured retry, vpcConnector, memory and timeoutSeconds, and a
\* literal cpu.
TransportConfig(topic, region, policy) ==
    [topic |-> topic,
     region |-> region,
     retry |-> policy.retry,
     vpcConnector |-> policy.vpcConnector,
     cpu |-> 1,
     memory |-> policy.memory,
     timeoutSeconds |-> policy.timeoutSeconds]

InitConfig ==
    /\ reg = [topic |-> "test", retryMaxAgeMinutes |-> Undefined, markEvent |-> FALSE,
              hasStore |-> FALSE, faithful |-> TRUE]
    /\ now = 0
    /\ store = {}
    /\ inv = [i \in Invs |-> Idle]
    /\ \E client \in ClientOptions, options \in PerHandlerOptions :
         cfg = [stage |-> "start", topic |-> "test", region |-> "us-central1",
                client |-> client, options |-> options,
                handlerOptions |-> <<>>, policy |-> <<>>, config |-> <<>>]

\* types.ts:99-128: createTypedPubsub merges the client's defaults over the
\* library's and hands the result to createHandlerFactory.
CreateTypedPubsub ==
    /\ cfg.stage = "start"
    /\ cfg' = [cfg EXCEPT !.stage = "client",
                          !.handlerOptions = MergeOptions(defaultHandlerOptions, cfg.client)]
    /\ UNCHANGED <<reg, now, store, inv>>

\* handler.ts:29-62: createHandler merges its options over the factory's
\* defaults and registers the callback with onMessagePublished.
CreateHandler ==
    /\ cfg.stage = "client"
    /\ LET policy == MergeOptions(cfg.handlerOptions, cfg.options) IN
       cfg' = [cfg EXCEPT !.stage = "registered",
                          !.policy = policy,
                          !.config = TransportConfig(cfg.topic, cfg.region, policy)]
    /\ UNCHANGED <<reg, now, store, inv>>

NextConfig == CreateTypedPubsub \/ CreateHandler

SpecConfig == InitConfig /\ [][NextConfig]_vars

(* The staleness filter on its own ********************************************)

\* Instants around each whole minute: the millisecond before, the minute
\* itself and the millisecond after.
Instants ==
    {t \in {m * MINUTE_MS + d : m \in 0..MaxStaleMinutes, d \in {-1, 0, 1}} : t >= 0}
StaleLimits == {Minutes(m) : m \in 0..MaxStaleMinutes}
\* Events with a readable timestamp, before, at or after the clock.
TimedEvents == [id : {NoId}, time : {Iso(t) : t \in Instants}, json : {PayloadNameExtra}]

\* A registration with a limit, looked at at one instant.
InitStale ==
    /\ \E a \in StaleLimits :
         reg = [topic |-> "test",
                retryMaxAgeMinutes |-> MergeOptions(defaultHandlerOptions,
                                                    [retryMaxAgeMinutes |-> a]).retryMaxAgeMinutes,
                markEvent |-> defaultHandlerOptions.markEvent,
                hasStore |-> FALSE, faithful |-> TRUE]
    /\ now \in Instants
    /\ store = {}
    /\ inv = [i \in Invs |-> Idle]
    /\ cfg = NoConfig

NextStale ==
    \/ \E i \in Invs, e \in TimedEvents : Deliver(i, e)
    \/ \E i \in Invs : HandlerResolves(i)

SpecStale == InitStale /\ [][NextStale]_vars

(* Retries of one event whose handler keeps failing ****************************)

\* Events with a readable timestamp.
RetryEvents == {e \in Events : e.time.parseable}

\* A registration with a limit of one minute.
InitRetry ==
    /\ \E topic \in Topics, markEvent \in BOOLEAN, hasStore \in BOOLEAN, faithful \in BOOLEAN :
         LET eff == MergeOptions(defaultHandlerOptions,
                                 [markEvent |-> markEvent, retryMaxAgeMinutes |-> Minutes(1)]) IN
         /\ (~hasStore => faithful)
         /\ reg = [topic |-> topic,
                   retryMaxAgeMinutes |-> eff.retryMaxAgeMinutes,
                   markEvent |-> eff.markEvent,
                   hasStore |-> hasStore,
                   faithful |-> faithful]
    /\ now = 0
    /\ store = {}
    /\ inv = [i \in Invs |-> Idle]
    /\ cfg = NoConfig

\* Invocation i is the latest delivery made.
Latest(i) == inv[i].pc # "idle" /\ \A j \in Invs : j > i => inv[j].pc = "idle"

\* The transport redelivers the event after its latest delivery ended in a
\* propagated failure.  The records of the first MaxInv - 1 deliveries are
\* kept, later ones replace the last record.
Retry(i) ==
    /\ Latest(i)
    /\ inv[i].pc = "done" /\ inv[i].outcome = "Failed"
    /\ LET j == IF i < MaxInv THEN i + 1 ELSE i
           e == inv[i].event
       IN  inv' = [inv EXCEPT ![j] =
                     Start([Idle EXCEPT
                              !.event = e,
                              !.oldAtStart = OlderThan(e, now, 1),
                              !.afterMarked =
                                 \E k \in Invs : /\ inv[k].outcome = "ProcessedMarked"
                                                 /\ inv[k].event.id = e.id,
                              !.afterLostMark = AfterLostMark(e)])]
    /\ UNCHANGED <<reg, now, store, cfg>>

\* The transport and a handler that fails on every delivery.
Redelivering ==
    \/ \E e \in RetryEvents : Deliver(1, e)
    \/ \E i \in Invs : Retry(i)
    \/ \E i \in Invs, b \in BOOLEAN : IsProcessedResolves(i, b)
    \/ \E i \in Invs : IsProcessedRejects(i)
    \/ \E i \in Invs : HandlerRejects(i)

NextRetry == Redelivering \/ Tick

\* Time passes, the transport redelivers and the calls return.
SpecRetry == InitRetry /\ [][NextRetry]_vars /\ WF_vars(Tick) /\ WF_vars(Redelivering)

(* Claims *******************************************************************)

\* The idempotency guard is active for invocation i: markEvent is on, a store
\* was supplied and the event has an id.
GuardActive(i) == reg.markEvent /\ reg.hasStore /\ inv[i].event.id # NoId

\* The invocation returned normally (the transport acknowledges the event).
Returned(i) == inv[i].pc = "done" /\ inv[i].failure = "none"

\* C1: with the idempotency guard active, an invocation whose
\* isEventProcessed(id) answered true ends Dropped-Duplicate: it returns
\* normally, and neither the handler nor markEventAsProcessed is called.
C1_DuplicateDropped ==
    \A i \in Invs :
        (GuardActive(i) /\ inv[i].seen = "true") =>
            /\ Returned(i)
            /\ inv[i].outcome = "DroppedDuplicate"
            /\ inv[i].handlerCalls = 0
            /\ inv[i].markCalls = 0

C1_Witness ==
    \E i \in Invs :
        GuardActive(i) /\ inv[i].seen = "true" /\ inv[i].outcome = "DroppedDuplicate"

\* C2: the store holds a record for id X only if the handler of some
\* invocation for X has completed successfully; no invocation calls
\* markEventAsProcessed before its own handler has completed successfully;
\* and no step removes a record from the store.
C2_StoreInv ==
    /\ \A x \in store :
          \E i \in Invs : inv[i].event.id = x /\ inv[i].handlerResult = "ok"
    /\ \A i \in Invs : inv[i].markCalls > 0 => inv[i].handlerResult = "ok"
C2_MarkAfterHandler == [](C2_StoreInv) /\ [][store \subseteq store']_vars

C2_Witness ==
    \E i \in Invs :
        /\ inv[i].event.id \in store
        /\ inv[i].markResult = "ok"
        /\ \E j \in Invs : j # i /\ inv[j].event.id = inv[i].event.id
                              /\ inv[j].pc = "handler"

\* C3: if the user handler throws or rejects, the invocation ends in a
\* propagated failure and markEventAsProcessed is not called in it.
C3_HandlerFailurePropagates ==
    \A i \in Invs :
        inv[i].handlerResult = "rejected" =>
            /\ inv[i].pc = "done"
            /\ inv[i].outcome = "Failed"
            /\ inv[i].failure = "handler"
            /\ inv[i].markCalls = 0

C3_Witness ==
    \E i \in Invs :
        GuardActive(i) /\ inv[i].handlerResult = "rejected" /\ inv[i].outcome = "Failed"

\* The raw payload of invocation i passes the schema of the registered topic.
Valid(i) ==
    /\ reg.topic \in DOMAIN schemas
    /\ safeParse(schemas[reg.topic], inv[i].event.json).success

\* The invocations for event id x whose handler completed successfully.
Handled(x) == {i \in Invs : inv[i].event.id = x /\ inv[i].handlerResult = "ok"}

\* C4: with markEvent on and a store that faithfully records marks, the
\* handler completes successfully at most once per event id, over all
\* deliveries of that id.
C4_HandledAtMostOnce ==
    (reg.markEvent /\ reg.hasStore /\ reg.faithful) =>
        \A x \in EventIds : Cardinality(Handled(x)) <= 1

\* C5: the duplicate check takes no lock: with the guard active, an
\* invocation whose isEventProcessed(id) answered false goes on to call the
\* handler (given a valid payload) whatever other invocations for the same
\* id are doing, so two of them can run the handler for one id at once.
C5_CheckDoesNotExclude ==
    \A i \in Invs :
        (GuardActive(i) /\ reg.faithful /\ inv[i].seen = "false" /\ Valid(i)) =>
            inv[i].handlerCalls = 1

\* Two invocations for one event id, against a faithful store, both saw
\* isEventProcessed answer false and both are running the handler.
C5_Witness ==
    \E i, j \in Invs :
        /\ i # j
        /\ GuardActive(i) /\ reg.faithful
        /\ inv[i].event.id = inv[j].event.id
        /\ inv[i].seen = "false" /\ inv[j].seen = "false"
        /\ inv[i].pc = "handler" /\ inv[j].pc = "handler"

\* Invocation i is the first delivery of its event id.
FirstDelivery(i) == \A j \in Invs : j < i => inv[j].event.id # inv[i].event.id

\* The handler and the store calls of invocation i all returned.
NothingRejected(i) ==
    /\ inv[i].seen # "rejected"
    /\ inv[i].handlerResult # "rejected"
    /\ inv[i].markResult # "rejected"

\* C6 as stated: with the guard active and a faithful store, the first
\* delivery of a valid, non-stale event invokes the handler and then marks
\* the id, and every delivery of the same id that starts after an invocation
\* ended Processed-Marked ends Dropped-Duplicate without invoking the handler.
C6_AsStated ==
    \A i \in Invs :
        (GuardActive(i) /\ reg.faithful /\ inv[i].pc = "done" /\ NothingRejected(i)) =>
            /\ (FirstDelivery(i) /\ Valid(i) /\ ~inv[i].wasStale) =>
                  /\ inv[i].handlerCalls = 1
                  /\ inv[i].markCalls = 1
                  /\ inv[i].outcome = "ProcessedMarked"
            /\ inv[i].afterMarked =>
                  /\ inv[i].handlerCalls = 0
                  /\ inv[i].outcome = "DroppedDuplicate"

\* C6 as amended: with the guard active and a faithful store, a delivery of
\* a valid event whose isEventProcessed(id) answered false invokes the
\* handler and, once the handler has completed successfully, marks the id;
\* every delivery of the same id that starts after an invocation ended
\* Processed-Marked never invokes the handler and ends Dropped-Duplicate, or
\* Dropped-Stale when it is stale by then.
C6_FirstProcessesLaterDrops ==
    \A i \in Invs :
        (GuardActive(i) /\ reg.faithful) =>
            /\ (inv[i].seen = "false" /\ Valid(i)) =>
                  /\ inv[i].handlerCalls = 1
                  /\ inv[i].handlerResult = "ok" => inv[i].markCalls = 1
                  /\ inv[i].markResult = "ok" =>
                        /\ inv[i].event.id \in store
                        /\ inv[i].outcome = "ProcessedMarked"
            /\ inv[i].afterMarked =>
                  /\ inv[i].handlerCalls = 0
                  /\ (inv[i].pc = "done" /\ NothingRejected(i)) =>
                        inv[i].outcome =
                            IF inv[i].wasStale THEN "DroppedStale" ELSE "DroppedDuplicate"

C6_Witness ==
    \E i, j \in Invs :
        /\ GuardActive(i) /\ reg.faithful
        /\ inv[i].outcome = "ProcessedMarked"
        /\ inv[j].event.id = inv[i].event.id
        /\ inv[j].afterMarked
        /\ inv[j].outcome = "DroppedDuplicate"

\* Invocation i starts in this step.
Starts(i) == inv[i].pc = "idle" /\ inv'[i].pc # "idle"

\* C7: with maxAgeMinutes set, an invocation for an event whose timestamp is
\* older than now - maxAgeMinutes ends Dropped-Stale as it starts: it returns
\* normally, and the handler is never invoked in it.
C7_StaleDropped ==
    /\ [][\A i \in Invs :
            (/\ Starts(i)
             /\ reg.retryMaxAgeMinutes.defined
             /\ OlderThan(inv'[i].event, now, reg.retryMaxAgeMinutes.v))
            => /\ inv'[i].pc = "done"
               /\ inv'[i].failure = "none"
               /\ inv'[i].outcome = "DroppedStale"]_vars
    /\ [](\A i \in Invs :
            inv[i].outcome = "DroppedStale" =>
                inv[i].pc = "done" /\ inv[i].handlerCalls = 0)

C7_Witness ==
    \E i \in Invs :
        /\ reg.retryMaxAgeMinutes = Minutes(1)
        /\ inv[i].oldAtStart
        /\ inv[i].outcome = "DroppedStale"

\* C8: the library default has no maxAgeMinutes, and without one the
\* staleness filter answers false for every event at every instant, so no
\* invocation ends Dropped-Stale however old its event is.
C8_NoLimitNoDrop ==
    /\ ~MergeOptions(defaultHandlerOptions, <<>>).retryMaxAgeMinutes.defined
    /\ \A e \in Events, t \in ClockValues : ~shouldDropEvent(e, Undefined, t)
    /\ ~reg.retryMaxAgeMinutes.defined =>
          \A i \in Invs :
              /\ ~inv[i].wasStale
              /\ inv[i].outcome # "DroppedStale"
              /\ \A n \in DOMAIN inv[i].log : inv[i].log[n].kind # "stale"

C8_Witness ==
    \E i \in Invs :
        /\ ~reg.retryMaxAgeMinutes.defined
        /\ inv[i].oldAtStart
        /\ inv[i].handlerCalls = 1

\* C9: when markEvent is off or no store was supplied, no invocation calls
\* isEventProcessed or markEventAsProcessed, and every delivery that is not
\* stale and whose payload is valid invokes the handler, repeated deliveries
\* of one event id included.
C9_NoGuardNoSuppression ==
    ~(reg.markEvent /\ reg.hasStore) =>
        \A i \in Invs :
            /\ inv[i].isProcessedCalls = 0
            /\ inv[i].markCalls = 0
            /\ (inv[i].pc # "idle" /\ ~inv[i].wasStale /\ Valid(i)) =>
                  inv[i].handlerCalls = 1

C9_Witness ==
    \E i, j \in Invs :
        /\ i # j
        /\ reg.markEvent /\ ~reg.hasStore
        /\ inv[i].event.id # NoId
        /\ inv[i].event.id = inv[j].event.id
        /\ inv[i].handlerResult = "ok" /\ inv[j].handlerResult = "ok"

\* Invocation i is past the duplicate check: it made none, or got an answer.
PastCheck(i) == inv[i].pc \notin {"idle", "isProcessed"}

\* The value the schema of the registered topic produces for the payload of
\* invocation i.
Validated(i) == safeParse(schemas[reg.topic], inv[i].event.json).data

\* C10 as stated: every delivery that is not stale, not a confirmed
\* duplicate and whose payload passes the schema invokes the handler with
\* the validated value.
C10_AsStated ==
    \A i \in Invs :
        (PastCheck(i) /\ ~inv[i].wasStale /\ inv[i].seen # "true" /\ Valid(i)) =>
            /\ inv[i].handlerCalls = 1
            /\ inv[i].handlerArg = Validated(i)

\* C10 as amended: every delivery that is not stale, whose duplicate check
\* (when one is made) answered false rather than true or a rejection, and
\* whose payload passes the schema invokes the handler with the validated
\* value.
C10_HandlerGetsValidated ==
    \A i \in Invs :
        (/\ PastCheck(i) /\ ~inv[i].wasStale
         /\ inv[i].seen \notin {"true", "rejected"}
         /\ Valid(i)) =>
            /\ inv[i].handlerCalls = 1
            /\ inv[i].handlerArg = Validated(i)

C10_Witness ==
    \E i \in Invs :
        /\ inv[i].event.json = PayloadNameExtra
        /\ inv[i].handlerCalls = 1
        /\ inv[i].handlerArg = {<<"name", "string", "test-event">>}
        /\ inv[i].handlerArg # inv[i].event.json

\* The registered topic has a schema and the raw payload of invocation i
\* fails it.
Invalid(i) ==
    /\ reg.topic \in DOMAIN schemas
    /\ ~safeParse(schemas[reg.topic], inv[i].event.json).success

\* C11 as stated: every delivery whose raw payload fails the topic's schema
\* ends Dropped-Invalid: the handler is never invoked, markEventAsProcessed
\* is not called, and the invocation returns normally.
C11_AsStated ==
    \A i \in Invs :
        (inv[i].pc = "done" /\ Invalid(i)) =>
            /\ inv[i].outcome = "DroppedInvalid"
            /\ inv[i].failure = "none"
            /\ inv[i].handlerCalls = 0
            /\ inv[i].markCalls = 0

\* C11 as amended: for every delivery whose raw payload fails the topic's
\* schema the handler is never invoked and markEventAsProcessed is not
\* called; when the delivery is not stale and its duplicate check (when one
\* is made) answered false, it ends Dropped-Invalid and returns normally.
C11_InvalidDropped ==
    \A i \in Invs :
        Invalid(i) =>
            /\ inv[i].handlerCalls = 0
            /\ inv[i].markCalls = 0
            /\ (/\ PastCheck(i) /\ ~inv[i].wasStale
                /\ inv[i].seen \notin {"true", "rejected"}) =>
                  /\ Returned(i)
                  /\ inv[i].outcome = "DroppedInvalid"

C11_Witness ==
    \E i \in Invs :
        /\ Invalid(i) /\ GuardActive(i)
        /\ inv[i].seen = "false"
        /\ inv[i].outcome = "DroppedInvalid"

\* C12: when the event has no id while markEvent is on and a store was
\* supplied, neither isEventProcessed nor markEventAsProcessed is called and
\* nothing fails on that account: the event goes through validation and the
\* handler as it does with the guard inactive.
C12_NoIdSkipsGuard ==
    \A i \in Invs :
        (reg.markEvent /\ reg.hasStore /\ inv[i].pc # "idle" /\ inv[i].event.id = NoId) =>
            /\ inv[i].isProcessedCalls = 0
            /\ inv[i].markCalls = 0
            /\ inv[i].failure \notin {"isProcessed", "mark"}
            /\ (~inv[i].wasStale /\ Valid(i)) => inv[i].handlerCalls = 1
            /\ (~inv[i].wasStale /\ Invalid(i)) => inv[i].outcome = "DroppedInvalid"
            /\ inv[i].handlerResult = "ok" => inv[i].outcome = "Processed"

C12_Witness ==
    \E i \in Invs :
        /\ reg.markEvent /\ reg.hasStore
        /\ inv[i].event.id = NoId
        /\ inv[i].outcome = "Processed"

\* C13: a topic without a schema is refused when the handler is registered,
\* so every invocation runs for a topic that has a schema and none fails on
\* the schema lookup.
C13_NoEventTimeLookupFailure ==
    \A i \in Invs :
        inv[i].pc # "idle" =>
            /\ reg.topic \in DOMAIN schemas
            /\ inv[i].failure # "got"

\* C14 as stated: an invocation ends in a propagated failure only if the
\* user handler threw or rejected; every other invocation, every drop
\* included, returns normally (looked at for a topic that has a schema).
C14_AsStated ==
    \A i \in Invs :
        (inv[i].pc = "done" /\ reg.topic \in DOMAIN schemas) =>
            /\ inv[i].outcome = "Failed" => inv[i].handlerResult = "rejected"
            /\ inv[i].outcome # "Failed" => inv[i].failure = "none"

Drops == {"DroppedStale", "DroppedDuplicate", "DroppedInvalid"}

\* C14 as amended: an invocation ends in a propagated failure only if the
\* user handler threw or rejected, isEventProcessed or markEventAsProcessed
\* rejected, or the lookup of the topic's schema threw; every other
\* invocation, every drop included, returns normally.
C14_FailureCauses ==
    \A i \in Invs :
        inv[i].pc = "done" =>
            /\ inv[i].outcome = "Failed" =>
                  \/ inv[i].handlerResult = "rejected"
                  \/ inv[i].seen = "rejected"
                  \/ inv[i].markResult = "rejected"
                  \/ reg.topic \notin DOMAIN schemas
            /\ inv[i].outcome # "Failed" => inv[i].failure = "none"
            /\ inv[i].outcome \in Drops =>
                  /\ inv[i].failure = "none"
                  /\ inv[i].handlerResult = "none"

C14_Witness ==
    \E i, j \in Invs :
        /\ inv[i].outcome = "Failed" /\ inv[i].handlerResult = "rejected"
        /\ inv[j].outcome \in Drops /\ Returned(j)

\* The value of option k when options wins over client and client over the
\* library's defaults.
ByPrecedence(k, client, options) ==
    IF k \in DOMAIN options THEN options[k]
    ELSE IF k \in DOMAIN client THEN client[k]
    ELSE defaultHandlerOptions[k]

\* C15: the effective policy is the field-wise merge in which per-handler
\* options win over the client's defaultHandlerOptions and these over the
\* library defaults; an empty override set yields exactly the defaults and a
\* full override set exactly the overrides.
C15_MergeByPrecedence ==
    /\ cfg.stage \in {"client", "registered"} =>
          /\ DOMAIN cfg.handlerOptions = OptionKeys
          /\ \A k \in OptionKeys :
                cfg.handlerOptions[k] = ByPrecedence(k, cfg.client, <<>>)
          /\ cfg.client = <<>> => cfg.handlerOptions = defaultHandlerOptions
          /\ DOMAIN cfg.client = OptionKeys => cfg.handlerOptions = cfg.client
    /\ cfg.stage = "registered" =>
          /\ DOMAIN cfg.policy = OptionKeys
          /\ \A k \in OptionKeys :
                cfg.policy[k] = ByPrecedence(k, cfg.client, cfg.options)
          /\ cfg.options = <<>> => cfg.policy = cfg.handlerOptions
          /\ DOMAIN cfg.options = OptionKeys => cfg.policy = cfg.options

C15_Witness ==
    /\ cfg.stage = "registered"
    /\ DOMAIN cfg.client = OptionKeys
    /\ DOMAIN cfg.options = {"markEvent", "cpu"}
    /\ cfg.policy.markEvent = FALSE /\ cfg.client.markEvent = TRUE
    /\ cfg.policy.memory = "1GiB"

\* The options the transport takes.
TransportKeys == OptionKeys \ {"retryMaxAgeMinutes", "markEvent"}

\* C16: the config passed to onMessagePublished holds the topic, the region
\* and every transport option of the effective policy with its effective
\* value.
C16_ConfigForwardsPolicy ==
    cfg.stage = "registered" =>
        /\ cfg.config.topic = cfg.topic
        /\ cfg.config.region = cfg.region
        /\ \A k \in TransportKeys :
              /\ k \in DOMAIN cfg.config
              /\ cfg.config[k] = cfg.policy[k]

\* Invocation i went on past the staleness filter: it made the duplicate
\* check, or it got to the schema lookup.
Continued(i) ==
    \/ inv[i].isProcessedCalls = 1
    \/ inv[i].parsed
    \/ inv[i].failure = "got"

\* C17: an event without a parseable timestamp is never dropped for
\* staleness, whatever maxAgeMinutes is: the filter answers false and the
\* invocation goes on through the pipeline.
C17_NoTimestampNotStale ==
    /\ \A e \in Events, a \in MaxAgeChoices, t \in ClockValues :
          ~e.time.parseable => ~shouldDropEvent(e, a, t)
    /\ \A i \in Invs :
          (inv[i].pc # "idle" /\ ~inv[i].event.time.parseable) =>
              /\ ~inv[i].wasStale
              /\ inv[i].outcome # "DroppedStale"
              /\ Continued(i)

\* An event with a timestamp was dropped as stale, and a later delivery of an
\* event without one, under the same limit, reached the handler.
C17_Witness ==
    \E i, j \in Invs :
        /\ i < j
        /\ reg.retryMaxAgeMinutes.defined
        /\ inv[i].outcome = "DroppedStale"
        /\ ~inv[j].event.time.parseable
        /\ inv[j].handlerCalls = 1

\* The report an invocation with this drop outcome has to have made.
ReportOf(outcome) ==
    CASE outcome = "DroppedStale" -> "stale"
      [] outcome = "DroppedDuplicate" -> "duplicate"
      [] outcome = "DroppedInvalid" -> "validation"

\* C18: every invocation that ends in a drop (stale, duplicate, invalid) has
\* made a report on the error channel and returns normally.
C18_DropsReported ==
    \A i \in Invs :
        inv[i].outcome \in Drops =>
            /\ Returned(i)
            /\ \E n \in DOMAIN inv[i].log :
                  /\ inv[i].log[n].kind = ReportOf(inv[i].outcome)
                  /\ inv[i].log[n].channel = "console.error"

C18_Witness ==
    \E i, j \in Invs :
        /\ inv[i].outcome = "DroppedStale" /\ Len(inv[i].log) = 1
        /\ inv[j].outcome \in {"DroppedDuplicate", "DroppedInvalid"}
        /\ Len(inv[j].log) = 1

\* C19: staleness is checked before the duplicate check: an invocation for a
\* stale event calls neither isEventProcessed nor markEventAsProcessed, also
\* with the guard active and an id on the event.
C19_StaleBeforeDuplicate ==
    /\ [][\A i \in Invs :
            (/\ Starts(i)
             /\ reg.retryMaxAgeMinutes.defined
             /\ OlderThan(inv'[i].event, now, reg.retryMaxAgeMinutes.v))
            => /\ inv'[i].pc = "done"
               /\ inv'[i].isProcessedCalls = 0
               /\ inv'[i].markCalls = 0]_vars
    /\ [](\A i \in Invs :
            inv[i].outcome = "DroppedStale" =>
                /\ inv[i].isProcessedCalls = 0
                /\ inv[i].seen = "none"
                /\ inv[i].markCalls = 0)

\* A stale redelivery of an id the store already holds.
C19_Witness ==
    \E i \in Invs :
        /\ GuardActive(i)
        /\ inv[i].event.id \in store
        /\ inv[i].oldAtStart
        /\ inv[i].outcome = "DroppedStale"
        /\ inv[i].isProcessedCalls = 0

\* C20: the duplicate check comes before validation: a confirmed duplicate
\* ends Dropped-Duplicate whether or not its payload is valid, the schema is
\* not applied to it and no validation error is reported.
C20_DuplicateBeforeValidation ==
    \A i \in Invs :
        (GuardActive(i) /\ inv[i].seen = "true") =>
            /\ inv[i].outcome = "DroppedDuplicate"
            /\ ~inv[i].parsed
            /\ \A n \in DOMAIN inv[i].log : inv[i].log[n].kind # "validation"

C20_Witness ==
    \E i \in Invs :
        /\ GuardActive(i) /\ inv[i].seen = "true"
        /\ Invalid(i)
        /\ inv[i].outcome = "DroppedDuplicate"

\* C21: no fire-and-forget: an invocation that invoked the handler returns
\* normally only after the handler has completed and, with the guard active,
\* only after markEventAsProcessed was called and has completed; the mark is
\* not started while the handler is still running.
C21_NoFireAndForget ==
    \A i \in Invs :
        /\ (Returned(i) /\ inv[i].handlerCalls = 1) =>
              /\ inv[i].handlerResult = "ok"
              /\ GuardActive(i) => (inv[i].markCalls = 1 /\ inv[i].markResult = "ok")
        /\ inv[i].pc = "handler" => (inv[i].markCalls = 0 /\ inv[i].outcome = "None")
        /\ inv[i].markCalls > 0 => inv[i].handlerResult = "ok"
        /\ inv[i].pc = "mark" => (inv[i].handlerResult = "ok" /\ inv[i].outcome = "None")

\* One invocation returned after handler and mark completed while another
\* one, for the same id, is still waiting for its handler.
C21_Witness ==
    \E i, j \in Invs :
        /\ GuardActive(i) /\ Returned(i)
        /\ inv[i].handlerResult = "ok" /\ inv[i].markResult = "ok"
        /\ inv[j].pc = "handler" /\ inv[j].markCalls = 0

\* C22: for a configured maxAgeMinutes and a parseable timestamp the
\* staleness filter answers true exactly when now - eventTimestamp is
\* strictly greater than maxAgeMinutes * 60000 ms; an age equal to the limit
\* and a timestamp in the future are not dropped.
C22_StrictAgeTest ==
    /\ [](\A e \in TimedEvents, a \in StaleLimits, t \in Instants :
            shouldDropEvent(e, a, t) <=> (t - e.time.ms > a.v * MINUTE_MS))
    /\ [][\A i \in Invs :
            (/\ Starts(i)
             /\ reg.retryMaxAgeMinutes.defined
             /\ inv'[i].event.time.parseable)
            => /\ inv'[i].wasStale <=>
                    (now - inv'[i].event.time.ms > reg.retryMaxAgeMinutes.v * MINUTE_MS)
               /\ (inv'[i].outcome = "DroppedStale") <=> inv'[i].wasStale]_vars

\* Under a limit that is set, one event whose age equals the limit and one
\* whose timestamp lies in the future both reached the handler (the clock
\* stands still in SpecStale).
C22_Witness ==
    \E i, j \in Invs :
        /\ reg.retryMaxAgeMinutes.defined /\ reg.retryMaxAgeMinutes.v > 0
        /\ inv[i].event.time.parseable
        /\ now - inv[i].event.time.ms = reg.retryMaxAgeMinutes.v * MINUTE_MS
        /\ ~inv[i].wasStale /\ inv[i].handlerCalls = 1
        /\ inv[j].event.time.parseable
        /\ inv[j].event.time.ms > now
        /\ ~inv[j].wasStale /\ inv[j].handlerCalls = 1

\* The severity of a console method.
Severity(channel) ==
    CASE channel = "console.error" -> 3
      [] channel = "console.warn" -> 2
      [] channel = "console.info" -> 1
      [] channel = "console.log" -> 1
      [] channel = "console.debug" -> 0

\* The reports of one kind made by invocation i.
Reports(i, kind) == {inv[i].log[n] : n \in {k \in DOMAIN inv[i].log : inv[i].log[k].kind = kind}}

\* C23 as stated: the report of a duplicate drop has a severity strictly
\* below that of the report of a validation failure.
C23_AsStated ==
    \A i, j \in Invs :
        \A d \in Reports(i, "duplicate"), v \in Reports(j, "validation") :
            Severity(d.channel) < Severity(v.channel)

\* C23 as amended: a duplicate drop and a validation failure are both
\* reported through console.error, at the same severity; their reports
\* differ in the message only.
C23_SameSeverity ==
    \A i, j \in Invs :
        /\ inv[i].outcome = "DroppedDuplicate" =>
              Reports(i, "duplicate") = {[kind |-> "duplicate", channel |-> "console.error"]}
        /\ inv[i].outcome = "DroppedInvalid" =>
              Reports(i, "validation") = {[kind |-> "validation", channel |-> "console.error"]}
        /\ \A d \in Reports(i, "duplicate"), v \in Reports(j, "validation") :
              /\ Severity(d.channel) = Severity(v.channel)
              /\ d # v

C23_Witness ==
    \E i, j \in Invs :
        /\ inv[i].outcome = "DroppedDuplicate"
        /\ inv[j].outcome = "DroppedInvalid"
        /\ Reports(i, "duplicate") # {}
        /\ Reports(j, "validation") # {}

Outcomes ==
    {"DroppedStale", "DroppedDuplicate", "DroppedInvalid", "Failed", "Processed",
     "ProcessedMarked"}

\* C24: every invocation whose store and handler calls return reaches
\* exactly one terminal outcome among Dropped-Stale, Dropped-Duplicate,
\* Dropped-Invalid, Failed, Processed and Processed-Marked, and calls
\* isEventProcessed, the handler and markEventAsProcessed at most once each.
C24_OneOutcome ==
    /\ [](\A i \in Invs :
            /\ inv[i].isProcessedCalls <= 1
            /\ inv[i].handlerCalls <= 1
            /\ inv[i].markCalls <= 1
            /\ inv[i].pc = "done" => inv[i].outcome \in Outcomes
            /\ inv[i].pc # "done" => inv[i].outcome = "None")
    /\ [][\A i \in Invs : inv[i].pc = "done" => inv'[i] = inv[i]]_vars
    /\ \A i \in Invs : (inv[i].pc # "idle") ~> (inv[i].pc = "done")

\* One invocation made each of the three calls and ended Processed-Marked,
\* another one ended Failed.
C24_Witness ==
    \E i, j \in Invs :
        /\ inv[i].outcome = "ProcessedMarked"
        /\ inv[i].isProcessedCalls = 1 /\ inv[i].handlerCalls = 1 /\ inv[i].markCalls = 1
        /\ inv[j].outcome = "Failed"

\* C26: when isEventProcessed rejects, the failure propagates out of the
\* invocation and neither validation, the handler nor markEventAsProcessed
\* runs: the pipeline does not fail open.
C26_CheckFailureFailsClosed ==
    \A i \in Invs :
        inv[i].seen = "rejected" =>
            /\ GuardActive(i)
            /\ inv[i].pc = "done"
            /\ inv[i].outcome = "Failed"
            /\ inv[i].failure = "isProcessed"
            /\ ~inv[i].parsed
            /\ inv[i].handlerCalls = 0
            /\ inv[i].markCalls = 0
            /\ inv[i].event.id \in store =>
                  \E j \in Invs : j # i /\ inv[j].event.id = inv[i].event.id
                                        /\ inv[j].markResult = "ok"

\* The check failed for an event that was valid and not stale.
C26_Witness ==
    \E i \in Invs :
        /\ GuardActive(i) /\ Valid(i) /\ ~inv[i].wasStale
        /\ inv[i].seen = "rejected"
        /\ inv[i].outcome = "Failed"

\* C25: when markEventAsProcessed rejects, or the invocation is cancelled,
\* after the handler has completed successfully, the invocation ends in a
\* propagated failure and no record is stored; a later redelivery of the
\* same id, made when nothing else is under way, passes the duplicate check
\* and invokes the handler again.
C25_LostMarkRedelivered ==
    /\ [](\A i \in Invs :
            /\ inv[i].markResult = "rejected" =>
                  /\ inv[i].pc = "done"
                  /\ inv[i].outcome = "Failed"
                  /\ inv[i].failure = "mark"
                  /\ inv[i].handlerResult = "ok"
            /\ inv[i].failure = "cancelled" =>
                  /\ inv[i].pc = "done"
                  /\ inv[i].outcome = "Failed"
                  /\ inv[i].markResult = "none")
    /\ [][\A i \in Invs :
            (inv[i].outcome # "Failed" /\ inv'[i].outcome = "Failed") => store' = store]_vars
    /\ [](\A j \in Invs :
            inv[j].afterLostMark =>
                /\ GuardActive(j)
                /\ ~inv[j].wasStale => inv[j].isProcessedCalls = 1
                /\ (reg.faithful /\ inv[j].seen = "true") =>
                      \E k \in Invs : /\ k # j
                                       /\ inv[k].event.id = inv[j].event.id
                                       /\ inv[k].markResult = "ok"
                /\ (inv[j].seen = "false" /\ Valid(j)) => inv[j].handlerCalls = 1)

\* Strictly sequential deliveries of one id against a faithful store: the
\* first one's mark was rejected after its handler completed, the second
\* one's handler completed as well and it was cancelled before its mark took
\* effect.
C25_Witness ==
    \E i, j \in Invs :
        /\ i # j
        /\ reg.faithful /\ GuardActive(i)
        /\ inv[i].event.id = inv[j].event.id
        /\ inv[i].handlerResult = "ok" /\ inv[i].markResult = "rejected"
        /\ inv[j].afterLostMark
        /\ inv[j].seen = "false"
        /\ inv[j].handlerResult = "ok" /\ inv[j].failure = "cancelled"
        /\ inv[i].event.id \notin store

\* A delivery is handed to slot i in this step.
Begins(i) == inv[i].pc \in {"idle", "done"} /\ inv'[i] # inv[i]

\* The latest delivery returned normally: the transport has nothing to
\* redeliver.
Settled == \E i \in Invs : Latest(i) /\ Returned(i)

\* C27: with maxAgeMinutes set, an event with a parseable timestamp whose
\* handler fails on every delivery is not retried forever: every delivery
\* made after its age exceeds the limit ends Dropped-Stale and returns
\* normally, and with a transport that redelivers only after a propagated
\* failure the deliveries come to an end.
C27_RetriesEnd ==
    /\ [][\A i \in Invs :
            (/\ Begins(i)
             /\ reg.retryMaxAgeMinutes.defined
             /\ OlderThan(inv'[i].event, now, reg.retryMaxAgeMinutes.v))
            => /\ inv'[i].outcome = "DroppedStale"
               /\ inv'[i].pc = "done"
               /\ inv'[i].failure = "none"
               /\ inv'[i].handlerCalls = 0]_vars
    /\ [][Settled => inv' = inv]_vars
    /\ <>[]Settled

\* The handler failed on the first delivery, and the latest delivery of the
\* same event, made after the limit, was dropped as stale.
C27_Witness ==
    \E i, j \in Invs :
        /\ i < j
        /\ inv[i].handlerResult = "rejected" /\ inv[i].outcome = "Failed"
        /\ inv[j].event = inv[i].event
        /\ Latest(j)
        /\ inv[j].oldAtStart
        /\ inv[j].outcome = "DroppedStale" /\ Returned(j)

====
